---- MODULE Spec2Model ----
(***************************************************************************)
(* A model of jmespath/ast.py: the tree interpreter (TreeInterpreter),     *)
(* the expression nodes (AST and its subclasses) and the projection type   *)
(* (_Projection).                                                          *)
(*                                                                         *)
(* Values.  Every Python value the interpreter can meet is a record        *)
(*     [t, n, c, k, s]                                                     *)
(* t  the Python type: "null" (None), "bool", "num", "str", "list",        *)
(*    "dict", "proj" (_Projection, a subclass of list), or "error" (an     *)
(*    exception that left the interpreter uncaught);                       *)
(* n  the number of a "num", 0/1 for a "bool";                             *)
(* c  the characters of a "str";                                           *)
(* k  the keys of a "dict", in insertion order;                            *)
(* s  the items of a "list"/"proj", the values of a "dict" (s[i] is the    *)
(*    value of key k[i]).                                                  *)
(*                                                                         *)
(* Nodes.  Every AST node is a record [op, name, key_name, index, nodes]:  *)
(* op is the class name, the others are the attributes the classes set.    *)
(***************************************************************************)
EXTENDS Integers, Sequences, FiniteSets, TLC

VARIABLES
    value,      \* TreeInterpreter.visit_SubExpression: `result`, the current value
    prev,       \* the value the last stage was evaluated against
    node,       \* the last stage that was evaluated
    steps,      \* how many stages have been evaluated
    tree,       \* concurrent searches: the shared SubExpression's children
    input,      \* concurrent searches: each thread's input value
    result,     \* concurrent searches: each thread's local `result`
    pos,        \* concurrent searches: each thread's position in node.nodes
    pc          \* concurrent searches: each thread's program counter

vars == <<value, prev, node, steps, tree, input, result, pos, pc>>

-----------------------------------------------------------------------------
(* Bounds *)

MaxSteps == 2

MaxIndex == 3

-----------------------------------------------------------------------------
(* Values *)

Null == [t |-> "null", n |-> 0, c |-> <<>>, k |-> <<>>, s |-> <<>>]

TypeError == [t |-> "error", n |-> 0, c |-> <<>>, k |-> <<>>, s |-> <<>>]

Bool(b) == [t |-> "bool", n |-> IF b THEN 1 ELSE 0, c |-> <<>>, k |-> <<>>, s |-> <<>>]

Num(i) == [t |-> "num", n |-> i, c |-> <<>>, k |-> <<>>, s |-> <<>>]

Str(chars) == [t |-> "str", n |-> 0, c |-> chars, k |-> <<>>, s |-> <<>>]

List(items) == [t |-> "list", n |-> 0, c |-> <<>>, k |-> <<>>, s |-> items]

Dict(keys, vals) == [t |-> "dict", n |-> 0, c |-> <<>>, k |-> keys, s |-> vals]

Proj(items) == [t |-> "proj", n |-> 0, c |-> <<>>, k |-> <<>>, s |-> items]

IsError(v) == v.t = "error"

\* isinstance(v, list): a _Projection is a list
IsList(v) == v.t \in {"list", "proj"}

\* a result that Python's truth test takes for false and that is not None
Falsy(v) ==
    \/ v = Num(0)
    \/ v = Bool(FALSE)
    \/ v = Str(<<>>)
    \/ IsList(v) /\ v.s = <<>>
    \/ v.t = "dict" /\ v.k = <<>>

\* iter(v), as list.extend walks it: the items of a list, the keys of a dict,
\* the one-character strings of a str
Iter(v) ==
    CASE v.t \in {"list", "proj"} -> v.s
      [] v.t = "dict" -> [i \in 1..Len(v.k) |-> Str(<<v.k[i]>>)]
      [] v.t = "str" -> [i \in 1..Len(v.c) |-> Str(<<v.c[i]>>)]
      [] OTHER -> <<>>

Iterable(v) == v.t \in {"list", "proj", "dict", "str"}

\* _Projection(elements): extend the new list with the elements; a value that
\* cannot be iterated raises TypeError
Projection(elements) ==
    IF Iterable(elements) THEN Proj(Iter(elements)) ELSE TypeError

\* dict.get(name): the value of the key, None when the key is absent
DictGet(d, name) ==
    IF \E i \in 1..Len(d.k) : d.k[i] = name
    THEN d.s[CHOOSE i \in 1..Len(d.k) : d.k[i] = name]
    ELSE Null

\* d[key] = val: a new key is appended, an old one keeps its place
DictSet(d, key, val) ==
    IF \E i \in 1..Len(d.k) : d.k[i] = key
    THEN Dict(d.k, [i \in 1..Len(d.s) |-> IF d.k[i] = key THEN val ELSE d.s[i]])
    ELSE Dict(Append(d.k, key), Append(d.s, val))

\* list.__getitem__(i) does not raise IndexError
InRange(items, i) == -Len(items) <= i /\ i < Len(items)

\* list.__getitem__(i) where it does not raise: a negative i counts from the end
GetItem(items, i) == IF i >= 0 THEN items[i + 1] ELSE items[Len(items) + i + 1]

-----------------------------------------------------------------------------
(* Nodes *)

SubExpression(children) ==
    [op |-> "SubExpression", name |-> "", key_name |-> "", index |-> 0, nodes |-> children]

Field(name) ==
    [op |-> "Field", name |-> name, key_name |-> "", index |-> 0, nodes |-> <<>>]

MultiFieldDict(children) ==
    [op |-> "MultiFieldDict", name |-> "", key_name |-> "", index |-> 0, nodes |-> children]

MultiFieldList(children) ==
    [op |-> "MultiFieldList", name |-> "", key_name |-> "", index |-> 0, nodes |-> children]

KeyValPair(key_name, child) ==
    [op |-> "KeyValPair", name |-> "", key_name |-> key_name, index |-> 0, nodes |-> <<child>>]

Index(index) ==
    [op |-> "Index", name |-> "", key_name |-> "", index |-> index, nodes |-> <<>>]

WildcardIndex ==
    [op |-> "WildcardIndex", name |-> "", key_name |-> "", index |-> 0, nodes |-> <<>>]

WildcardValues ==
    [op |-> "WildcardValues", name |-> "", key_name |-> "", index |-> 0, nodes |-> <<>>]

ListElements ==
    [op |-> "ListElements", name |-> "", key_name |-> "", index |-> 0, nodes |-> <<>>]

ORExpression(left, right) ==
    [op |-> "ORExpression", name |-> "", key_name |-> "", index |-> 0, nodes |-> <<left, right>>]

\* the state before any stage has run
NoNode == [op |-> "", name |-> "", key_name |-> "", index |-> 0, nodes |-> <<>>]

-----------------------------------------------------------------------------
(* _Projection and TreeInterpreter *)

RECURSIVE visit(_, _)
RECURSIVE get(_, _)
RECURSIVE get_index(_, _)
RECURSIVE multi_get(_, _)
RECURSIVE multi_get_list(_, _)
RECURSIVE values(_)
RECURSIVE multi_get_result(_, _)
RECURSIVE multi_get_list_result(_, _)
RECURSIVE MultiFieldDict_collected(_, _)
RECURSIVE MultiFieldList_collected(_, _)
RECURSIVE SubExpression_result(_, _)
RECURSIVE merged_list(_)

\* AST.search: a new TreeInterpreter visits the node
search(n, v) == visit(n, v)

\* _Projection.get without `if result is not None`: a null result is kept
get_keepNull(self, name) ==
    IF self.s = <<>> THEN Proj(<<>>)
    ELSE LET element == Head(self.s)
             rest == get(Proj(Tail(self.s)), name)
             res == CASE element.t = "dict" -> DictGet(element, name)
                      [] element.t = "proj" -> get(element, name)
                      [] OTHER -> Null
         IN  IF element.t \notin {"dict", "proj"}
             THEN rest
             ELSE IF IsList(res)
                  THEN Proj(<<Proj(res.s)>> \o rest.s)
                  ELSE Proj(<<res>> \o rest.s)

\* _Projection.get with results.extend(result) for a list result: spliced in
get_spliced(self, name) ==
    IF self.s = <<>> THEN Proj(<<>>)
    ELSE LET element == Head(self.s)
             rest == get(Proj(Tail(self.s)), name)
             res == CASE element.t = "dict" -> DictGet(element, name)
                      [] element.t = "proj" -> get(element, name)
                      [] OTHER -> Null
         IN  IF element.t \notin {"dict", "proj"} \/ res = Null
             THEN rest
             ELSE IF IsList(res)
                  THEN Proj(res.s \o rest.s)
                  ELSE Proj(<<res>> \o rest.s)

\* _Projection.get: the loop, written from the first element on
get(self, name) ==
    IF self.s = <<>> THEN Proj(<<>>)
    ELSE LET element == Head(self.s)
             rest == get(Proj(Tail(self.s)), name)
             res == CASE element.t = "dict" -> DictGet(element, name)
                      [] element.t = "proj" -> get(element, name)
                      [] OTHER -> Null      \* AttributeError: continue
         IN  IF element.t \notin {"dict", "proj"} \/ res = Null
             THEN rest
             ELSE IF IsList(res)
                  THEN Proj(<<Proj(res.s)>> \o rest.s)
                  ELSE Proj(<<res>> \o rest.s)

\* _Projection.get_index recursing into an element that is a _Projection
get_index_recursive(self, index) ==
    IF self.s = <<>> THEN Proj(<<>>)
    ELSE LET el == Head(self.s)
             rest == get_index(Proj(Tail(self.s)), index)
         IN  IF ~IsList(el) THEN rest
             ELSE IF el.t = "proj"
                  THEN Proj(<<get_index(el, index)>> \o rest.s)
                  ELSE IF InRange(el.s, index)
                       THEN Proj(<<GetItem(el.s, index)>> \o rest.s)
                       ELSE rest

\* _Projection.get_index
get_index(self, index) ==
    IF self.s = <<>> THEN Proj(<<>>)
    ELSE LET el == Head(self.s)
             rest == get_index(Proj(Tail(self.s)), index)
         IN  IF ~IsList(el) THEN rest
             ELSE IF InRange(el.s, index)
                  THEN Proj(<<GetItem(el.s, index)>> \o rest.s)
                  ELSE rest

\* _Projection.multi_get, inner loop: result[node.key_name] = node.search(element)
multi_get_result(nodes, element) ==
    IF nodes = <<>> THEN Dict(<<>>, <<>>)
    ELSE LET n == nodes[Len(nodes)]
             before == multi_get_result(SubSeq(nodes, 1, Len(nodes) - 1), element)
         IN  IF IsError(before) THEN before
             ELSE LET current == search(n, element)
                  IN  IF IsError(current) THEN current
                      ELSE DictSet(before, n.key_name, current)

\* _Projection.multi_get
multi_get(self, nodes) ==
    IF self.s = <<>> THEN Proj(<<>>)
    ELSE LET element == Head(self.s)
             res == IF element.t = "proj" THEN multi_get(element, nodes)
                    ELSE multi_get_result(nodes, element)
         IN  IF IsError(res) THEN res
             ELSE LET rest == multi_get(Proj(Tail(self.s)), nodes)
                  IN  IF IsError(rest) THEN rest
                      ELSE Proj(<<res>> \o rest.s)

\* _Projection.multi_get_list, inner loop: result.append(node.search(element))
multi_get_list_result(nodes, element) ==
    IF nodes = <<>> THEN List(<<>>)
    ELSE LET current == search(Head(nodes), element)
         IN  IF IsError(current) THEN current
             ELSE LET rest == multi_get_list_result(Tail(nodes), element)
                  IN  IF IsError(rest) THEN rest
                      ELSE List(<<current>> \o rest.s)

\* _Projection.multi_get_list
multi_get_list(self, nodes) ==
    IF self.s = <<>> THEN Proj(<<>>)
    ELSE LET element == Head(self.s)
             res == IF element.t = "proj" THEN multi_get_list(element, nodes)
                    ELSE multi_get_list_result(nodes, element)
         IN  IF IsError(res) THEN res
             ELSE LET rest == multi_get_list(Proj(Tail(self.s)), nodes)
                  IN  IF IsError(rest) THEN rest
                      ELSE Proj(<<res>> \o rest.s)

\* _Projection.values
values(self) ==
    IF self.s = <<>> THEN Proj(<<>>)
    ELSE LET element == Head(self.s)
             rest == values(Proj(Tail(self.s)))
         IN  CASE element.t = "dict" -> Proj(<<Proj(element.s)>> \o rest.s)
               [] element.t = "proj" -> Proj(<<Proj(values(element).s)>> \o rest.s)
               [] OTHER -> rest             \* AttributeError: continue

\* visit_SubExpression: the loop over node.nodes, from `result`
SubExpression_result(nodes, res) ==
    IF nodes = <<>> \/ IsError(res) THEN res
    ELSE SubExpression_result(Tail(nodes), visit(Head(nodes), res))

visit_SubExpression(n, v) == SubExpression_result(n.nodes, v)

visit_Field(n, v) ==
    CASE v.t = "dict" -> DictGet(v, n.name)
      [] v.t = "proj" -> get(v, n.name)
      [] OTHER -> Null                      \* AttributeError

\* visit_MultiFieldDict, the loop: collected[node.key_name] = self.visit(node, value)
MultiFieldDict_collected(nodes, v) ==
    IF nodes = <<>> THEN Dict(<<>>, <<>>)
    ELSE LET n == nodes[Len(nodes)]
             before == MultiFieldDict_collected(SubSeq(nodes, 1, Len(nodes) - 1), v)
         IN  IF IsError(before) THEN before
             ELSE LET current == visit(n, v)
                  IN  IF IsError(current) THEN current
                      ELSE DictSet(before, n.key_name, current)

visit_MultiFieldDict(n, v) ==
    IF v = Null THEN Null
    ELSE IF v.t = "proj" THEN multi_get(v, n.nodes)
    ELSE MultiFieldDict_collected(n.nodes, v)

\* visit_MultiFieldList, the loop: collected.append(self.visit(node, value))
MultiFieldList_collected(nodes, v) ==
    IF nodes = <<>> THEN List(<<>>)
    ELSE LET current == visit(Head(nodes), v)
         IN  IF IsError(current) THEN current
             ELSE LET rest == MultiFieldList_collected(Tail(nodes), v)
                  IN  IF IsError(rest) THEN rest
                      ELSE List(<<current>> \o rest.s)

visit_MultiFieldList(n, v) ==
    IF v = Null THEN Null
    ELSE IF v.t = "proj" THEN multi_get_list(v, n.nodes)
    ELSE MultiFieldList_collected(n.nodes, v)

visit_KeyValPair(n, v) == visit(n.nodes[1], v)

\* visit_Index taking an index equal to the length for the last element
visit_Index_upToLength(n, v) ==
    IF ~IsList(v) THEN Null
    ELSE IF v.t = "proj" THEN get_index(v, n.index)
    ELSE IF InRange(v.s, n.index) THEN GetItem(v.s, n.index)
    ELSE IF n.index = Len(v.s) /\ v.s # <<>> THEN v.s[Len(v.s)]
    ELSE Null

visit_Index(n, v) ==
    IF ~IsList(v) THEN Null
    ELSE IF v.t = "proj" THEN get_index(v, n.index)
    ELSE IF InRange(v.s, n.index) THEN GetItem(v.s, n.index)
    ELSE Null                               \* IndexError

visit_WildcardIndex(n, v) == Projection(v)

visit_WildcardValues(n, v) ==
    CASE v.t = "dict" -> Proj(v.s)
      [] v.t = "proj" -> Projection(values(v))
      [] OTHER -> Null                      \* AttributeError

\* visit_ListElements: merged_list
merged_list(items) ==
    IF items = <<>> THEN <<>>
    ELSE LET element == Head(items)
         IN  IF IsList(element) THEN element.s \o merged_list(Tail(items))
             ELSE <<element>> \o merged_list(Tail(items))

visit_ListElements(n, v) ==
    IF IsList(v) THEN Projection(List(merged_list(v.s)))
    ELSE Projection(v)

\* visit_ORExpression with `if not result`: any falsy result falls back
visit_ORExpression_falsy(n, v) ==
    LET res == visit(n.nodes[1], v)
    IN  IF res = Null \/ Falsy(res) THEN visit(n.nodes[2], v) ELSE res

visit_ORExpression(n, v) ==
    LET res == visit(n.nodes[1], v)
    IN  IF res = Null THEN visit(n.nodes[2], v) ELSE res

\* Visitor.visit: the handler named after the node's class, default_visit otherwise
visit(n, v) ==
    CASE n.op = "SubExpression" -> visit_SubExpression(n, v)
      [] n.op = "Field" -> visit_Field(n, v)
      [] n.op = "MultiFieldDict" -> visit_MultiFieldDict(n, v)
      [] n.op = "MultiFieldList" -> visit_MultiFieldList(n, v)
      [] n.op = "KeyValPair" -> visit_KeyValPair(n, v)
      [] n.op = "Index" -> visit_Index(n, v)
      [] n.op = "WildcardIndex" -> visit_WildcardIndex(n, v)
      [] n.op = "WildcardValues" -> visit_WildcardValues(n, v)
      [] n.op = "ListElements" -> visit_ListElements(n, v)
      [] n.op = "ORExpression" -> visit_ORExpression(n, v)
      [] OTHER -> Null

-----------------------------------------------------------------------------
(* Inputs: the JSON documents and the expression nodes the searches draw on *)

Names == {"x", "y"}

Indexes == (0 - MaxIndex)..MaxIndex

Scalars ==
    { Null, Bool(FALSE), Bool(TRUE), Num(0), Num(1),
      Str(<<>>), Str(<<"x">>), Str(<<"x", "y">>) }

Documents ==
    { List(<<>>), Dict(<<>>, <<>>),
      List(<<Num(1), Num(2)>>),
      List(<<Null, Num(1), Str(<<"x">>)>>),
      List(<<List(<<Num(1), Num(2)>>), List(<<Num(3)>>), Num(4)>>),
      List(<<List(<<List(<<Num(1)>>)>>), Dict(<<"x">>, <<Num(2)>>)>>),
      List(<<Dict(<<"x">>, <<Num(1)>>), Dict(<<"y">>, <<Num(2)>>), Dict(<<"x">>, <<Num(3)>>)>>),
      List(<<Dict(<<"x">>, <<Num(1)>>), Dict(<<"y">>, <<Num(2)>>)>>),
      List(<<Dict(<<"x">>, <<List(<<Num(1), Num(2)>>)>>), Dict(<<"x">>, <<List(<<Num(3)>>)>>)>>),
      List(<<Dict(<<"x">>, <<Null>>), Num(1), Dict(<<"x", "y">>, <<List(<<>>), Num(0)>>)>>),
      Dict(<<"x", "y">>, <<Null, Num(2)>>),
      Dict(<<"x", "y">>, <<Num(1), Num(2)>>),
      Dict(<<"x", "y">>, <<Num(0), Num(2)>>),
      Dict(<<"x", "y">>, <<Str(<<>>), Num(2)>>),
      Dict(<<"x", "y">>, <<Bool(FALSE), List(<<>>)>>),
      Dict(<<"y", "x">>, <<List(<<Num(1), Num(2), Num(3)>>), List(<<>>)>>),
      Dict(<<"x">>, <<Dict(<<"y">>, <<Num(5)>>)>>),
      List(<<Dict(<<"x">>, <<List(<<Dict(<<"x">>, <<Num(1)>>), Dict(<<"y">>, <<Num(2)>>)>>)>>)>>),
      Dict(<<"x">>, <<List(<<Dict(<<"x", "y">>, <<Str(<<"x">>), Str(<<"y">>)>>),
                             Dict(<<"x">>, <<Str(<<"y">>)>>)>>)>>) }

Inputs == Scalars \cup Documents

\* the nodes an ORExpression, a multi-field or a SubExpression stage is built from
Children == { Field("x"), Field("y"), Index(0), WildcardIndex }

Seqs(S) == { <<a>> : a \in S } \cup { <<a, b>> : a \in S, b \in S }

Pairs == { KeyValPair(key, child) : key \in Names, child \in {Field("x"), WildcardIndex} }

Pipelines == { <<>> } \cup Seqs({ Field("x"), Index(0), WildcardIndex, WildcardValues, ListElements })

Lefts == Children \cup { SubExpression(<<WildcardIndex, Field("x")>>) }

Rights == { Field("y"), Index(0) }

-----------------------------------------------------------------------------------------------------------------------------------------------------
(* One search: the stages of a SubExpression, evaluated left to right.  The *)
(* stages are chosen as the search goes, one action per handler.            *)

Init ==
    /\ value \in Inputs
    /\ prev = Null
    /\ node = NoNode
    /\ steps = 0
    /\ tree = <<>>
    /\ input = <<>>
    /\ result = <<>>
    /\ pos = <<>>
    /\ pc = <<>>

\* the loop of visit_SubExpression goes on: no exception has been raised
Running == steps < MaxSteps /\ ~IsError(value)

\* what the model remembers of the stage: its node and the value it was given
Visited(n) ==
    /\ prev' = value
    /\ node' = n
    /\ steps' = steps + 1
    /\ UNCHANGED <<tree, input, result, pos, pc>>

VisitSubExpression ==
    \E children \in Pipelines :
        /\ Running
        /\ value' = visit(SubExpression(children), value)
        /\ Visited(SubExpression(children))

VisitField ==
    \E name \in Names :
        /\ Running
        /\ value' = visit(Field(name), value)
        /\ Visited(Field(name))

VisitMultiFieldDict ==
    \E children \in Seqs(Pairs) :
        /\ Running
        /\ value' = visit(MultiFieldDict(children), value)
        /\ Visited(MultiFieldDict(children))

VisitMultiFieldList ==
    \E children \in Seqs(Children) :
        /\ Running
        /\ value' = visit(MultiFieldList(children), value)
        /\ Visited(MultiFieldList(children))

VisitKeyValPair ==
    \E pair \in Pairs :
        /\ Running
        /\ value' = visit(pair, value)
        /\ Visited(pair)

VisitIndex ==
    \E index \in Indexes :
        /\ Running
        /\ value' = visit(Index(index), value)
        /\ Visited(Index(index))

VisitWildcardIndex ==
    /\ Running
    /\ value' = visit(WildcardIndex, value)
    /\ Visited(WildcardIndex)

VisitWildcardValues ==
    /\ Running
    /\ value' = visit(WildcardValues, value)
    /\ Visited(WildcardValues)

VisitListElements ==
    /\ Running
    /\ value' = visit(ListElements, value)
    /\ Visited(ListElements)

VisitORExpression ==
    \E left \in Lefts, right \in Rights :
        /\ Running
        /\ value' = visit(ORExpression(left, right), value)
        /\ Visited(ORExpression(left, right))

Next ==
    \/ VisitSubExpression
    \/ VisitField
    \/ VisitMultiFieldDict
    \/ VisitMultiFieldList
    \/ VisitKeyValPair
    \/ VisitIndex
    \/ VisitWildcardIndex
    \/ VisitWildcardValues
    \/ VisitListElements
    \/ VisitORExpression

Spec == Init /\ [][Next]_vars

-----------------------------------------------------------------------------
(* Two searches of one tree, AST.search called by two threads: each call    *)
(* makes its own TreeInterpreter and runs visit_SubExpression on the shared *)
(* node, one child per step.                                                *)

Threads == {1, 2}

Stages == { Field("x"), Index(0), WildcardIndex, ListElements,
            MultiFieldList(<<Field("x"), Field("y")>>),
            ORExpression(Field("x"), Field("y")) }

Trees == Seqs(Stages)

ConcInputs ==
    { Null,
      Dict(<<"x", "y">>, <<Null, Num(2)>>),
      Dict(<<"x">>, <<List(<<Dict(<<"x">>, <<Num(1)>>), Dict(<<"y">>, <<Num(2)>>)>>)>>),
      List(<<Dict(<<"x">>, <<Num(1)>>), Dict(<<"y">>, <<Num(2)>>), Dict(<<"x">>, <<Num(3)>>)>>),
      List(<<List(<<Num(1), Num(2)>>), List(<<Num(3)>>), Num(4)>>) }

InitConc ==
    /\ tree \in Trees
    /\ input \in { f \in [Threads -> ConcInputs] : f[1] # f[2] }
    /\ result = [t \in Threads |-> Null]
    /\ pos = [t \in Threads |-> 0]
    /\ pc = [t \in Threads |-> "search"]
    /\ value = Null
    /\ prev = Null
    /\ node = NoNode
    /\ steps = 0

\* AST.search, then visit_SubExpression: result = value
Search(t) ==
    /\ pc[t] = "search"
    /\ result' = [result EXCEPT ![t] = input[t]]
    /\ pc' = [pc EXCEPT ![t] = "loop"]
    /\ UNCHANGED <<tree, input, pos, value, prev, node, steps>>

\* Loop with `result` kept on an interpreter that the searches share
Loop_shared(t) ==
    /\ pc[t] = "loop"
    /\ pos[t] < Len(tree)
    /\ LET res == visit(tree[pos[t] + 1], result[t])
       IN  /\ result' = [u \in Threads |-> res]
           /\ pc' = [pc EXCEPT ![t] = IF IsError(res) THEN "raised" ELSE "loop"]
    /\ pos' = [pos EXCEPT ![t] = pos[t] + 1]
    /\ UNCHANGED <<tree, input, value, prev, node, steps>>

\* visit_SubExpression: result = self.visit(node, result), for the next child;
\* an exception ends the call
Loop(t) ==
    /\ pc[t] = "loop"
    /\ pos[t] < Len(tree)
    /\ LET res == visit(tree[pos[t] + 1], result[t])
       IN  /\ result' = [result EXCEPT ![t] = res]
           /\ pc' = [pc EXCEPT ![t] = IF IsError(res) THEN "raised" ELSE "loop"]
    /\ pos' = [pos EXCEPT ![t] = pos[t] + 1]
    /\ UNCHANGED <<tree, input, value, prev, node, steps>>

\* visit_SubExpression: return result
Return(t) ==
    /\ pc[t] = "loop"
    /\ pos[t] = Len(tree)
    /\ pc' = [pc EXCEPT ![t] = "done"]
    /\ UNCHANGED <<tree, input, result, pos, value, prev, node, steps>>

NextConc == \E t \in Threads : Search(t) \/ Loop(t) \/ Return(t)

SpecConc == InitConc /\ [][NextConc]_vars

-----------------------------------------------------------------------------
(* Properties.  In Spec, `node` is the stage just evaluated, `prev` the     *)
(* value it was evaluated against and `value` what it returned.             *)

\* the last stage was an evaluation of a node of class op
Evaluated(op) == steps > 0 /\ node.op = op

\* the last stage was an evaluation of a node of class op against a Projection
Broadcast(op) == Evaluated(op) /\ prev.t = "proj"

\* list equality, as Python compares a list with a _Projection: by the items
SameItems(a, b) == a = b \/ (IsList(a) /\ IsList(b) /\ a.s = b.s)

\* C1: evaluation never raises: every tree on every input returns a value,
\* null or a Projection.
C1_NeverRaises == ~IsError(value)

\* the element supports key lookup and the lookup of the stage's name is not null
FieldHit(el) ==
    \/ el.t = "proj"
    \/ el.t = "dict" /\ DictGet(el, node.name) # Null

\* how many of the first i elements of prev the field broadcast keeps
FieldRank(i) == Cardinality({ j \in 1..i : FieldHit(prev.s[j]) })

\* C2: Field(name) against a Projection drops every element that lacks key
\* lookup or whose lookup is null; every other element contributes its
\* result, and the survivors keep their relative order.
C2_BroadcastDrop ==
    Broadcast("Field") =>
        /\ value.t = "proj"
        /\ Len(value.s) = FieldRank(Len(prev.s))
        /\ \A i \in 1..Len(prev.s) :
              FieldHit(prev.s[i]) =>
                  SameItems(value.s[FieldRank(i)], visit(node, prev.s[i]))

\* C2, its case: [*].x against [{"x":1},{"y":2},{"x":3}] is [1,3]
C2_Witness ==
    /\ Broadcast("Field")
    /\ node.name = "x"
    /\ prev = Proj(<<Dict(<<"x">>, <<Num(1)>>), Dict(<<"y">>, <<Num(2)>>),
                     Dict(<<"x">>, <<Num(3)>>)>>)
    /\ value = Proj(<<Num(1), Num(3)>>)

\* the children of a MultiFieldDict that set the key last
LastOfKey(j) == \A m \in (j + 1)..Len(node.nodes) : node.nodes[m].key_name # node.nodes[j].key_name

\* the entry a multi-field builds from one element that is not a Projection:
\* one result per child, in declaration order, keyed by key_name for a dict
MultiFieldEntry(entry, el) ==
    IF node.op = "MultiFieldList"
    THEN /\ entry.t = "list"
         /\ Len(entry.s) = Len(node.nodes)
         /\ \A j \in 1..Len(node.nodes) : entry.s[j] = visit(node.nodes[j], el)
    ELSE /\ entry.t = "dict"
         /\ { entry.k[m] : m \in 1..Len(entry.k) } =
                { node.nodes[j].key_name : j \in 1..Len(node.nodes) }
         /\ \A j \in 1..Len(node.nodes) :
               LastOfKey(j) =>
                   DictGet(entry, node.nodes[j].key_name) = visit(node.nodes[j], el)

\* C3: a multi-field against a Projection of n elements has exactly n entries,
\* the i-th built from the i-th element (for a nested Projection, from its own
\* multi-field broadcast); a null child result stays as null in the entry and
\* no element is dropped.
C3_MultiFieldNoDrop ==
    (Broadcast("MultiFieldList") \/ Broadcast("MultiFieldDict")) =>
        /\ value.t = "proj"
        /\ Len(value.s) = Len(prev.s)
        /\ \A i \in 1..Len(prev.s) :
              IF prev.s[i].t = "proj"
              THEN value.s[i] = visit(node, prev.s[i])
              ELSE MultiFieldEntry(value.s[i], prev.s[i])

\* C4, as amended: Index(i) against an array returns the element at offset i
\* (a negative i counts from the end) for -length <= i < length and null for
\* every other i; against a value that is not an array it returns null.
C4_IndexInRange ==
    Evaluated("Index") /\ prev.t # "proj" =>
        IF prev.t = "list"
        THEN LET i == node.index
                 len == Len(prev.s)
             IN  /\ (0 <= i /\ i < len) => value = prev.s[i + 1]
                 /\ (0 - len <= i /\ i < 0) => value = prev.s[len + i + 1]
                 /\ (i >= len \/ i < 0 - len) => value = Null
        ELSE value = Null

\* C4, its case: Index(2) against [1,2] is null
C4_Witness ==
    /\ Evaluated("Index")
    /\ prev = List(<<Num(1), Num(2)>>)
    /\ node.index = 2
    /\ value = Null

\* C4, as claimed: Index(i) against an array returns the element at offset i
\* for every i with |i| <= length and null for every other i; against a value
\* that is not an array it returns null.
C4_IndexAbsUpToLength ==
    Evaluated("Index") /\ prev.t # "proj" =>
        IF prev.t = "list"
        THEN LET i == node.index
                 len == Len(prev.s)
             IN  /\ (0 <= i /\ i <= len) => (i + 1 \in 1..len /\ value = prev.s[i + 1])
                 /\ (0 - len <= i /\ i < 0) => value = prev.s[len + i + 1]
                 /\ (i > len \/ i < 0 - len) => value = Null
        ELSE value = Null

\* C5: ORExpression(L, R) against v returns R's result on v exactly when L's
\* result on v is null, and L's result otherwise; a falsy result of L that is
\* not null never falls back.
C5_OrFallback ==
    Evaluated("ORExpression") =>
        LET left == visit(node.nodes[1], prev)
            right == visit(node.nodes[2], prev)
        IN  /\ left = Null => value = right
            /\ left # Null => value = left
            /\ Falsy(left) => value = left

\* C5, its case: a falsy left result that differs from the right result is returned
C5_Witness ==
    /\ Evaluated("ORExpression")
    /\ Falsy(visit(node.nodes[1], prev))
    /\ visit(node.nodes[2], prev) \notin {Null, visit(node.nodes[1], prev)}
    /\ value = visit(node.nodes[1], prev)

\* C6: ListElements against a sequence is a Projection of the sequence
\* flattened one level; against any other value it is the singleton
\* Projection of that value.
C6_ListElements ==
    Evaluated("ListElements") =>
        IF IsList(prev)
        THEN value = Proj(merged_list(prev.s))
        ELSE value = Proj(<<prev>>)

\* C7, as amended: in the field broadcast, a lookup result that is an array is
\* added to the result as one element, a nested Projection holding the
\* array's items in order.
C7_ArrayResultNested ==
    Broadcast("Field") =>
        /\ Len(value.s) = FieldRank(Len(prev.s))
        /\ \A i \in 1..Len(prev.s) :
              FieldHit(prev.s[i]) /\ IsList(visit(node, prev.s[i])) =>
                  /\ value.s[FieldRank(i)].t = "proj"
                  /\ value.s[FieldRank(i)].s = visit(node, prev.s[i]).s

\* C7, its case: [*].x against [{"x":[1,2]},{"x":[3]}] is [[1,2],[3]]
C7_Witness ==
    /\ Broadcast("Field")
    /\ node.name = "x"
    /\ prev = Proj(<<Dict(<<"x">>, <<List(<<Num(1), Num(2)>>)>>),
                     Dict(<<"x">>, <<List(<<Num(3)>>)>>)>>)
    /\ value = Proj(<<Proj(<<Num(1), Num(2)>>), Proj(<<Num(3)>>)>>)

RECURSIVE Spliced(_)
\* the lookup results of the elements, the arrays among them spliced in
Spliced(items) ==
    IF items = <<>> THEN <<>>
    ELSE LET res == visit(node, Head(items))
         IN  IF ~FieldHit(Head(items)) THEN Spliced(Tail(items))
             ELSE IF IsList(res) THEN res.s \o Spliced(Tail(items))
             ELSE <<res>> \o Spliced(Tail(items))

\* C7, as claimed: in the field broadcast, the items of a lookup result that
\* is an array become direct elements of the result, in order.
C7_ArrayResultSpliced ==
    Broadcast("Field") => value.s = Spliced(prev.s)

\* the element contributes an entry to the broadcast of the stage
Keeps(el) ==
    CASE node.op = "Field" -> FieldHit(el)
      [] node.op = "Index" -> IsList(el) /\ InRange(el.s, node.index)
      [] node.op = "WildcardValues" -> el.t \in {"dict", "proj"}
      [] OTHER -> TRUE

\* how many of the first i elements of prev the broadcast keeps
Rank(i) == Cardinality({ j \in 1..i : Keeps(prev.s[j]) })

BroadcastOps == {"Field", "Index", "WildcardValues", "MultiFieldDict", "MultiFieldList"}

\* C8, as amended: the field, values and multi-field broadcasts recurse into
\* nested Projections: the entry of an element that is a Projection is what
\* the same broadcast returns on it.  The index broadcast does not: a nested
\* Projection is indexed like any sequence and contributes its own item at
\* the index, or nothing when the index is out of its range.
C8_NestedBroadcast ==
    (steps > 0 /\ node.op \in BroadcastOps /\ prev.t = "proj" /\ value.t = "proj") =>
        /\ Len(value.s) = Rank(Len(prev.s))
        /\ \A i \in 1..Len(prev.s) :
              (prev.s[i].t = "proj" /\ Keeps(prev.s[i])) =>
                  value.s[Rank(i)] = IF node.op = "Index"
                                     THEN GetItem(prev.s[i].s, node.index)
                                     ELSE visit(node, prev.s[i])

\* C8, its case: Index(0) against the Projection [[1,2],[3]] of Projections is [1,3]
C8_Witness ==
    /\ Broadcast("Index")
    /\ node.index = 0
    /\ prev = Proj(<<Proj(<<Num(1), Num(2)>>), Proj(<<Num(3)>>)>>)
    /\ value = Proj(<<Num(1), Num(3)>>)

\* the element contributes an entry, were every broadcast to recurse
KeepsRecursive(el) == el.t = "proj" \/ Keeps(el)

RankRecursive(i) == Cardinality({ j \in 1..i : KeepsRecursive(prev.s[j]) })

\* C8, as claimed: every broadcast, the index broadcast too, recurses into
\* nested Projections: the entry of an element that is a Projection is what
\* the same broadcast returns on it.
C8_EveryBroadcastRecurses ==
    (steps > 0 /\ node.op \in BroadcastOps /\ prev.t = "proj" /\ value.t = "proj") =>
        \A i \in 1..Len(prev.s) :
            prev.s[i].t = "proj" =>
                /\ RankRecursive(i) <= Len(value.s)
                /\ value.s[RankRecursive(i)] = visit(node, prev.s[i])

\* C9: two searches of one tree, interleaved in any way, each end with the
\* result of the search run alone, and neither the tree nor an input changes.
C9_Independent ==
    /\ [](\A t \in Threads :
            pc[t] \in {"done", "raised"} =>
                result[t] = search(SubExpression(tree), input[t]))
    /\ [][tree' = tree /\ input' = input]_vars

\* C9, its case: both searches of a two-stage tree are done, with different results
C9_Witness ==
    /\ tree # <<>>
    /\ Len(tree) = 2
    /\ \A t \in Threads : pc[t] = "done"
    /\ result[1] # result[2]
    /\ \A t \in Threads : result[t] # input[t]

\* C10: a node evaluated against a Projection returns a Projection, and an
\* ORExpression evaluated against a Projection returns its left side's result.
C10_ProjectionClosed ==
    (steps > 0 /\ prev.t = "proj") =>
        /\ value.t = "proj"
        /\ node.op = "ORExpression" => value = visit(node.nodes[1], prev)

====
